---- MODULE Spec2Model ----
(***************************************************************************)
(* A model of nbodykit/utils/config.py: the ConstructorSchema of Argument  *)
(* records, the type-cast engine, the recursive namespace filler behind    *)
(* ReadConfigFile, and the autoassign constructor wrapper.                 *)
(*                                                                         *)
(* Python strings are sequences of one-character strings, so that          *)
(* str.lower, str.split('.') and '.'.join are computed, not assumed.       *)
(* Python values are tagged records.  An OrderedDict is a sequence of      *)
(* [key, val] entries in insertion order.                                  *)
(***************************************************************************)
EXTENDS Integers, Sequences, FiniteSets, TLC

VARIABLES
    phase,      \* which step of the scenario has been taken
    castArg,    \* cast scenario: the Argument handed to ConstructorSchema.cast
    castValue,  \* cast scenario: the raw value handed to it
    castOut,    \* cast scenario: what the call returned or raised
    schema,     \* the ConstructorSchema being declared (func.schema)
    ndecl,      \* how many add_argument calls were made
    lastCall,   \* the arguments of the last add_argument call
    schemaExc,  \* the exception the last add_argument call raised, if any
    document,   \* read scenario: the parsed document handed to ReadConfigFile
    readOut,    \* read scenario: what ReadConfigFile returned or raised
    func,       \* bind scenario: the decorated constructor and its signature
    call        \* bind scenario: one invocation of the wrapper and its outcome

castVars == <<castArg, castValue, castOut>>

schemaVars == <<schema, ndecl, lastCall, schemaExc>>

readVars == <<document, readOut>>

bindVars == <<func, call>>

vars == <<phase, castVars, schemaVars, readVars, bindVars>>

-----------------------------------------------------------------------------
(* Bounds of the model *)

MaxLen == 3

MaxDecl == 2

MaxDocKeys == 2

MaxParams == 2

MaxArgs == 2

MaxKwargs == 1

MaxUpdates == 2

-----------------------------------------------------------------------------
(* Sequences *)

Last(s) == s[Len(s)]

Front(s) == SubSeq(s, 1, Len(s) - 1)

SeqsUpTo(S, n) == UNION {[1..k -> S] : k \in 0..n}

Range(seq) == {seq[i] : i \in 1..Len(seq)}

-----------------------------------------------------------------------------
(* Python values *)

\* every value carries all three payloads, so that any two values compare
Value(t, i, s, l) == [s |-> s, i |-> i, t |-> t, l |-> l]

PyNone == Value("None", 0, <<>>, <<>>)

PyInt(i) == Value("int", i, <<>>, <<>>)

PyStr(s) == Value("str", 0, s, <<>>)

PyList(l) == Value("list", 0, <<>>, l)

\* an argparse.Namespace: its attributes, in the order they were first set
PyNs(attrs) == Value("ns", 0, <<>>, attrs)

\* an OrderedDict of a parsed document
PyDict(od) == Value("dict", 0, <<>>, od)

Ok(val) == [val |-> val, ok |-> TRUE]

Raise(type, kind, about) ==
    [ok |-> FALSE, exc |-> [type |-> type, kind |-> kind, about |-> about]]

-----------------------------------------------------------------------------
(* The builtin cast functions int and str *)

Digits == <<"0", "1", "2", "3", "4", "5", "6", "7", "8", "9">>

IsDigit(c) == \E d \in 1..10 : Digits[d] = c

DigitVal(c) == (CHOOSE d \in 1..10 : Digits[d] = c) - 1

RECURSIVE ParseDigits(_, _)
ParseDigits(s, acc) ==
    IF s = <<>> THEN acc ELSE ParseDigits(Tail(s), 10 * acc + DigitVal(Head(s)))

\* int(str): an optional sign followed by one or more digits
IsIntLiteral(s) ==
    LET body == IF s # <<>> /\ Head(s) \in {"-", "+"} THEN Tail(s) ELSE s
    IN  body # <<>> /\ \A i \in 1..Len(body) : IsDigit(body[i])

ParseInt(s) ==
    IF Head(s) = "-" THEN 0 - ParseDigits(Tail(s), 0)
    ELSE IF Head(s) = "+" THEN ParseDigits(Tail(s), 0)
    ELSE ParseDigits(s, 0)

RECURSIVE FormatNat(_)
FormatNat(n) ==
    IF n < 10 THEN <<Digits[n + 1]>> ELSE FormatNat(n \div 10) \o <<Digits[(n % 10) + 1]>>

FormatInt(i) == IF i < 0 THEN <<"-">> \o FormatNat(0 - i) ELSE FormatNat(i)

RECURSIVE JoinWith(_, _)
JoinWith(sep, ss) ==
    IF ss = <<>> THEN <<>>
    ELSE IF Len(ss) = 1 THEN ss[1]
    ELSE ss[1] \o sep \o JoinWith(sep, Tail(ss))

Chars(str) ==
    CASE str = "None" -> <<"N", "o", "n", "e">>
      [] str = "Namespace" -> <<"N", "a", "m", "e", "s", "p", "a", "c", "e">>
      [] str = "OrderedDict" -> <<"O", "r", "d", "e", "r", "e", "d", "D", "i", "c", "t">>

RECURSIVE Repr(_)
Repr(x) ==
    CASE x.t = "int" -> FormatInt(x.i)
      [] x.t = "str" -> <<"'">> \o x.s \o <<"'">>
      [] x.t = "None" -> Chars("None")
      [] x.t = "list" ->
            <<"[">> \o JoinWith(<<",", " ">>, [i \in 1..Len(x.l) |-> Repr(x.l[i])])
                    \o <<"]">>
      [] x.t = "ns" ->
            Chars("Namespace") \o <<"(">>
                \o JoinWith(<<",", " ">>,
                            [i \in 1..Len(x.l) |-> x.l[i].key \o <<"=">> \o Repr(x.l[i].val)])
                \o <<")">>
      [] x.t = "dict" ->
            Chars("OrderedDict") \o <<"(">>
                \o (IF x.l = <<>> THEN <<>>
                    ELSE <<"[">>
                         \o JoinWith(<<",", " ">>,
                                [i \in 1..Len(x.l) |->
                                    <<"(", "'">> \o x.l[i].key \o <<"'", ",", " ">>
                                        \o Repr(x.l[i].val) \o <<")">>])
                         \o <<"]">>)
                \o <<")">>

\* str(x): a string is itself, anything else shows as its repr
StrOf(x) == IF x.t = "str" THEN x.s ELSE Repr(x)

IntCast(x) ==
    CASE x.t = "int" -> Ok(x)
      [] x.t = "str" ->
            IF IsIntLiteral(x.s) THEN Ok(PyInt(ParseInt(x.s)))
            ELSE Raise("ValueError", "invalid literal for int()", x.s)
      [] OTHER -> Raise("TypeError", "int() argument", <<>>)

StrCast(x) == Ok(PyStr(StrOf(x)))

ApplyCast(f, x) == IF f = "int" THEN IntCast(x) ELSE StrCast(x)

-----------------------------------------------------------------------------
(* Argument *)

TSingle(f) == [kind |-> "single", fs |-> <<f>>]

TTuple(fs) == [kind |-> "tuple", fs |-> fs]

NargsNone == [n |-> 0, k |-> "None"]

NargsInt(n) == [n |-> n, k |-> "int"]

NargsPlus == [n |-> 0, k |-> "+"]

NargsStar == [n |-> 0, k |-> "*"]

NoChoices == [given |-> FALSE, of |-> {}]

ChoicesOf(S) == [given |-> TRUE, of |-> S]

HelpNone == "None"

HelpEmpty == ""

Argument(name, required, type, default, choices, nargs, help, subfields) ==
    [type |-> type, name |-> name, required |-> required, default |-> default,
     choices |-> choices, nargs |-> nargs, help |-> help, subfields |-> subfields]

-----------------------------------------------------------------------------
(* str.split('.'), '.'.join and str.lower *)

RECURSIVE SplitFrom(_, _)
SplitFrom(s, cur) ==
    IF s = <<>> THEN <<cur>>
    ELSE IF Head(s) = "." THEN <<cur>> \o SplitFrom(Tail(s), <<>>)
    ELSE SplitFrom(Tail(s), Append(cur, Head(s)))

Split(s) == SplitFrom(s, <<>>)

Join(segs) == JoinWith(<<".">>, segs)

UpperCase == <<"A", "B", "C", "D", "E", "F", "G", "H", "I", "J", "K", "L", "M",
               "N", "O", "P", "Q", "R", "S", "T", "U", "V", "W", "X", "Y", "Z">>

LowerCase == <<"a", "b", "c", "d", "e", "f", "g", "h", "i", "j", "k", "l", "m",
               "n", "o", "p", "q", "r", "s", "t", "u", "v", "w", "x", "y", "z">>

LowerChar(c) ==
    IF \E i \in 1..Len(UpperCase) : UpperCase[i] = c
        THEN LowerCase[CHOOSE i \in 1..Len(UpperCase) : UpperCase[i] = c]
        ELSE c

Lower(s) == [i \in 1..Len(s) |-> LowerChar(s[i])]

-----------------------------------------------------------------------------
(* OrderedDict: a sequence of [key, val] entries in insertion order *)

Keys(od) == [i \in 1..Len(od) |-> od[i].key]

Has(od, k) == \E i \in 1..Len(od) : od[i].key = k

IndexOf(od, k) == CHOOSE i \in 1..Len(od) : od[i].key = k

Get(od, k) == od[IndexOf(od, k)].val

\* od[k] = v: an existing key keeps its position, a new one goes last
Put(od, k, v) ==
    IF Has(od, k) THEN [od EXCEPT ![IndexOf(od, k)].val = v]
    ELSE Append(od, [val |-> v, key |-> k])

Remove(od, k) ==
    LET i == IndexOf(od, k) IN SubSeq(od, 1, i - 1) \o SubSeq(od, i + 1, Len(od))

-----------------------------------------------------------------------------
(* ConstructorSchema.contains and ConstructorSchema.add_argument *)

NoExc == [type |-> "", kind |-> "", about |-> <<>>]

KeyError(k) == [type |-> "KeyError", kind |-> "", about |-> k]

\* the for loop of contains: obj is rebound to self[k].subfields, looked up in
\* the schema itself at every level
RECURSIVE ContainsWalk(_, _, _, _)
ContainsWalk(self, obj, prefix, name) ==
    IF prefix = <<>> THEN Ok(Has(obj, name))
    ELSE IF ~Has(self, Head(prefix)) THEN [ok |-> FALSE, exc |-> KeyError(Head(prefix))]
    ELSE ContainsWalk(self, Get(self, Head(prefix)).subfields, Tail(prefix), name)

contains(self, key) ==
    LET split == Split(key)
    IN  ContainsWalk(self, self, Front(split), Last(split))

\* the first loop of add_argument: parent Arguments that do not exist are
\* created, carrying the call's `required`
RECURSIVE CreateParents(_, _, _, _)
CreateParents(obj, prefix, i, required) ==
    IF i > Len(prefix) THEN obj
    ELSE LET k == prefix[i]
             obj1 == IF Has(obj, k) THEN obj
                     ELSE Put(obj, k, Argument(Join(SubSeq(prefix, 1, i)), required,
                                               TSingle("None"), PyNone, NoChoices,
                                               NargsNone, HelpEmpty, <<>>))
             parent == Get(obj1, k)
         IN  Put(obj1, k, [parent EXCEPT
                    !.subfields = CreateParents(parent.subfields, prefix, i + 1, required)])

\* the OrderedDict add_argument ends up in: the subfields at the end of prefix
RECURSIVE SubfieldsAt(_, _)
SubfieldsAt(obj, prefix) ==
    IF prefix = <<>> THEN obj ELSE SubfieldsAt(Get(obj, Head(prefix)).subfields, Tail(prefix))

\* obj[suffix] = arg for that OrderedDict
RECURSIVE SetAt(_, _, _, _)
SetAt(obj, prefix, suffix, arg) ==
    IF prefix = <<>> THEN Put(obj, suffix, arg)
    ELSE LET parent == Get(obj, Head(prefix))
         IN  Put(obj, Head(prefix), [parent EXCEPT
                    !.subfields = SetAt(parent.subfields, Tail(prefix), suffix, arg)])

\* the result is the schema as the call leaves it and the exception it raised
add_argument(self, name, type, default, choices, nargs, help, required) ==
    LET split == Split(name)
        prefix == Front(split)
        suffix == Last(split)
        self1 == CreateParents(self, prefix, 1, required)
        obj == SubfieldsAt(self1, prefix)
        found == contains(self1, name)
    IN  IF ~found.ok THEN [schema |-> self1, exc |-> found.exc]
        ELSE IF ~found.val
            THEN [schema |-> SetAt(self1, prefix, suffix,
                                   Argument(name, required, type, default, choices, nargs,
                                            help, <<>>)),
                  exc |-> NoExc]
        ELSE IF ~Has(obj, suffix) THEN [schema |-> self1, exc |-> KeyError(suffix)]
        ELSE [schema |-> SetAt(self1, prefix, suffix,
                               [Get(obj, suffix) EXCEPT
                                    !.type = type, !.default = default,
                                    !.choices = choices, !.help = help,
                                    !.required = required, !.nargs = nargs]),
              exc |-> NoExc]

-----------------------------------------------------------------------------
(* ConstructorSchema.cast *)

\* the first four statements: wrap a non-list, then the two cardinality checks
CastValue(arg, value) ==
    IF arg.nargs.k # "None" /\ value.t # "list" THEN PyList(<<value>>) ELSE value

\* a cardinality check that only rejects sequences that are too short
CardinalityErrorTooShort(arg, value) ==
    IF arg.nargs.k = "int" /\ Len(value.l) < arg.nargs.n
        THEN Raise("ValueError", "requires exactly", arg.name)
    ELSE IF arg.nargs.k = "+" /\ Len(value.l) = 0
        THEN Raise("ValueError", "requires at least one argument", arg.name)
    ELSE Ok(value)

CardinalityError(arg, value) ==
    IF arg.nargs.k = "int" /\ Len(value.l) # arg.nargs.n
        THEN Raise("ValueError", "requires exactly", arg.name)
    ELSE IF arg.nargs.k = "+" /\ Len(value.l) = 0
        THEN Raise("ValueError", "requires at least one argument", arg.name)
    ELSE Ok(value)

\* [cast(v) for v in value]: the first element that fails ends the comprehension
RECURSIVE CastEach(_, _, _)
CastEach(f, vs, done) ==
    IF vs = <<>> THEN Ok(PyList(done))
    ELSE LET r == ApplyCast(f, Head(vs))
         IN  IF r.ok THEN CastEach(f, Tail(vs), Append(done, r.val)) ELSE r

cast1(f, arg, value) ==
    IF f = "None" THEN Ok(value)
    ELSE IF arg.nargs.k # "None" THEN CastEach(f, value.l, <<>>)
    ELSE ApplyCast(f, value)

Casts(arg) == arg.type.fs

\* a cast engine without the fallback: the first candidate's outcome is final
TryCastsNoFallback(casts, arg, value) ==
    IF casts = <<>> THEN Raise("IndexError", "tuple index out of range", <<>>)
    ELSE cast1(Head(casts), arg, value)

RECURSIVE TryCasts(_, _, _)
TryCasts(casts, arg, value) ==
    IF casts = <<>> THEN Raise("IndexError", "tuple index out of range", <<>>)
    ELSE IF Len(casts) = 1 THEN cast1(casts[1], arg, value)
    ELSE LET r == cast1(Head(casts), arg, value)
         IN  IF r.ok THEN r ELSE TryCasts(Tail(casts), arg, value)

cast(arg, value) ==
    LET wrapped == CastValue(arg, value)
        checked == CardinalityError(arg, wrapped)
    IN  IF ~checked.ok THEN checked ELSE TryCasts(Casts(arg), arg, wrapped)

-----------------------------------------------------------------------------
(* case_insensitive_name_match, fill_namespace and ReadConfigFile *)

NoMatch == [key |-> <<>>, found |-> FALSE]

case_insensitive_name_match(schema_name, config) ==
    LET config_names == Keys(config)
        lowered_config_names == [i \in 1..Len(config_names) |-> Lower(config_names[i])]
        lowered_schema_name == Lower(schema_name)
        hits == {i \in 1..Len(config_names) : lowered_config_names[i] = lowered_schema_name}
    IN  IF hits # {}
            THEN [key |-> config_names[CHOOSE i \in hits : \A j \in hits : i <= j],
                  found |-> TRUE]
            ELSE NoMatch

AttributeError(attr) == [type |-> "AttributeError", kind |-> "", about |-> attr]

TypeError(what) == [type |-> "TypeError", kind |-> "", about |-> what]

\* the classes that are ConfigurationError or derive from it
ConfigurationErrors == {"ConfigurationError", "EmptyConfigurationError", "PluginParsingError"}

ConfigurationError(name, cause) ==
    [type |-> "ConfigurationError", kind |-> "unable to cast", about |-> name,
     cause |-> cause]

Filled(ns, config, missing, exc) ==
    [exc |-> exc, config |-> config, ns |-> ns, missing |-> missing]

\* setattr(ns, schema_name, ConstructorSchema.cast(arg, value)) inside the try
SetCastOf(ns, schema_name, arg, r, config, missing) ==
    IF r.ok THEN Filled(Put(ns, schema_name, r.val), config, missing, NoExc)
    ELSE Filled(ns, config, missing, ConfigurationError(arg.name, r.exc))

SetCast(ns, schema_name, arg, value, config, missing) ==
    SetCastOf(ns, schema_name, arg, cast(arg, value), config, missing)

\* a filler that reports only the first missing argument
FillLeafFirstOnly(ns, arg, schema_name, config, missing) ==
    IF config.t = "None" THEN Filled(ns, config, missing, NoExc)
    ELSE IF config.t # "dict"
        THEN Filled(ns, config, missing, AttributeError(<<"k", "e", "y", "s">>))
    ELSE LET config_match == case_insensitive_name_match(schema_name, config.l)
         IN  IF config_match.found
                THEN SetCast(ns, schema_name, arg, Get(config.l, config_match.key),
                             PyDict(Remove(config.l, config_match.key)), missing)
             ELSE IF arg.required /\ missing = <<>>
                THEN Filled(ns, config, Append(missing, arg.name), NoExc)
             ELSE Filled(ns, config, missing, NoExc)

\* the leaf branch: nothing at all happens when config is None
FillLeaf(ns, arg, schema_name, config, missing) ==
    IF config.t = "None" THEN Filled(ns, config, missing, NoExc)
    ELSE IF config.t # "dict"
        THEN Filled(ns, config, missing, AttributeError(<<"k", "e", "y", "s">>))
    ELSE LET config_match == case_insensitive_name_match(schema_name, config.l)
         IN  IF config_match.found
                THEN SetCast(ns, schema_name, arg, Get(config.l, config_match.key),
                             PyDict(Remove(config.l, config_match.key)), missing)
             ELSE IF arg.required
                THEN Filled(ns, config, Append(missing, arg.name), NoExc)
             ELSE Filled(ns, config, missing, NoExc)

RECURSIVE fill_namespace(_, _, _, _)
RECURSIVE FillSubfields(_, _, _, _, _)
RECURSIVE FillSubfieldsFrom(_, _, _)

\* for k in arg.subfields: fill_namespace(subns, arg[k], subconfig, missing)
FillSubfields(subns, arg, i, subconfig, missing) ==
    IF i > Len(arg.subfields) THEN Filled(subns, subconfig, missing, NoExc)
    ELSE FillSubfieldsFrom(fill_namespace(subns, arg.subfields[i].val, subconfig, missing),
                           arg, i)

\* the loop after its i-th call returned r: an exception leaves the loop
FillSubfieldsFrom(r, arg, i) ==
    IF r.exc # NoExc THEN r ELSE FillSubfields(r.ns, arg, i + 1, r.config, r.missing)

\* the container branch once the subfields are filled: the sub-namespace is
\* attached only when something was set on it
FillContainer(ns, arg, schema_name, popped, sub) ==
    IF sub.exc # NoExc THEN Filled(ns, popped, sub.missing, sub.exc)
    ELSE IF Len(sub.ns) > 0
        THEN SetCast(ns, schema_name, arg, PyNs(sub.ns), popped, sub.missing)
    ELSE Filled(ns, popped, sub.missing, NoExc)

\* subconfig = config.pop(schema_name, None): the lookup is by the exact key
Pop(config, schema_name) ==
    IF Has(config.l, schema_name)
        THEN [val |-> Get(config.l, schema_name),
              config |-> PyDict(Remove(config.l, schema_name))]
    ELSE [val |-> PyNone, config |-> config]

FillNamed(ns, arg, schema_name, config, missing) ==
    IF Len(arg.subfields) = 0 THEN FillLeaf(ns, arg, schema_name, config, missing)
    ELSE IF config.t # "dict"
        THEN Filled(ns, config, missing,
                    IF config.t = "list" THEN TypeError(<<"p", "o", "p">>)
                    ELSE AttributeError(<<"p", "o", "p">>))
    ELSE FillContainer(ns, arg, schema_name, Pop(config, schema_name).config,
                       FillSubfields(<<>>, arg, 1, Pop(config, schema_name).val, missing))

\* the result carries ns, config and missing as the call leaves them
fill_namespace(ns, arg, config, missing) ==
    FillNamed(ns, arg, Last(Split(arg.name)), config, missing)

\* for name in schema: fill_namespace(ns, schema[name], extra, missing)
RECURSIVE FillAll(_, _, _, _, _)
RECURSIVE FillAllFrom(_, _, _)
FillAll(ns, schema_, i, extra, missing) ==
    IF i > Len(schema_) THEN [fill |-> Filled(ns, extra, missing, NoExc), walked |-> i - 1]
    ELSE FillAllFrom(fill_namespace(ns, schema_[i].val, extra, missing), schema_, i)

\* the loop after its i-th call returned r: an exception leaves the loop
FillAllFrom(r, schema_, i) ==
    IF r.exc # NoExc THEN [fill |-> r, walked |-> i - 1]
    ELSE FillAll(r.ns, schema_, i + 1, r.config, r.missing)

ReservedX == <<"X">>

ReservedCosmo == <<"c", "o", "s", "m", "o">>

EmptyConfigurationError ==
    [type |-> "EmptyConfigurationError", kind |-> "no valid keys found", about |-> <<>>]

MissingError(missing) ==
    [type |-> "ValueError", kind |-> "missing required arguments", about |-> <<>>,
     names |-> missing]

ReadResult(raised, ns, unknown, missing, walked, plugins, cosmo) ==
    [ns |-> ns, missing |-> missing, walked |-> walked, raised |-> raised,
     unknown |-> unknown, plugins |-> plugins, cosmo |-> cosmo]

\* the plugins named under 'X': a bare string is one plugin
Plugins(config) ==
    IF ~Has(config, ReservedX) THEN <<>>
    ELSE LET plugins == Get(config, ReservedX)
         IN  CASE plugins.t = "str" -> <<plugins>>
               [] plugins.t = "list" -> plugins.l
               [] plugins.t = "dict" -> [i \in 1..Len(plugins.l) |-> PyStr(plugins.l[i].key)]
               [] OTHER -> <<>>

\* after the loop over the schema: the missing names are raised together
ReadFilled(all, plugins, cosmo) ==
    IF all.fill.exc # NoExc
        THEN ReadResult(all.fill.exc, all.fill.ns, <<>>, all.fill.missing, all.walked,
                        plugins, cosmo)
    ELSE IF Len(all.fill.missing) > 0
        THEN ReadResult(MissingError(all.fill.missing), all.fill.ns, all.fill.config.l,
                        all.fill.missing, all.walked, plugins, cosmo)
    ELSE ReadResult(NoExc, all.fill.ns, all.fill.config.l, all.fill.missing, all.walked,
                    plugins, cosmo)

\* config_stream is taken as what ordered_load made of it
ReadConfigFile(config, schema_) ==
    IF config.t \in {"str", "None"}
        THEN ReadResult(EmptyConfigurationError, <<>>, <<>>, <<>>, 0, <<>>, PyNone)
    ELSE IF Has(config.l, ReservedX) /\ Get(config.l, ReservedX).t \in {"int", "None"}
        THEN ReadResult(TypeError(<<"i", "t", "e", "r">>), <<>>, <<>>, <<>>, 0, <<>>, PyNone)
    ELSE
    LET plugins == Plugins(config.l)
        config1 == IF Has(config.l, ReservedX) THEN Remove(config.l, ReservedX) ELSE config.l
        hasCosmo == Has(config1, ReservedCosmo)
        cosmo == IF hasCosmo THEN Get(config1, ReservedCosmo) ELSE PyNone
        config2 == IF hasCosmo THEN Remove(config1, ReservedCosmo) ELSE config1
    IN  IF hasCosmo /\ cosmo.t # "dict"
            THEN ReadResult(TypeError(<<"*", "*">>), <<>>, <<>>, <<>>, 0, plugins, PyNone)
        ELSE
        ReadFilled(FillAll(<<>>, schema_, 1, PyDict(config2), <<>>), plugins, cosmo)

-----------------------------------------------------------------------------
(* update_schema, autoassign and the wrapper it returns *)

In(list, x) == \E i \in 1..Len(list) : list[i] = x

\* list.index(x)
Index(list, x) == CHOOSE i \in 1..Len(list) : list[i] = x /\ \A j \in 1..(i - 1) : list[j] # x

\* list.remove(x), for an x that is in the list
ListRemove(list, x) ==
    SubSeq(list, 1, Index(list, x) - 1) \o SubSeq(list, Index(list, x) + 1, Len(list))

SelfName == <<"s", "e", "l", "f">>

AmbientComm == <<"c", "o", "m", "m">>

AmbientCosmo == <<"c", "o", "s", "m", "o">>

\* what get_nbkit_comm() and get_nbkit_cosmo() return
NbkitComm == PyStr(<<"W", "O", "R", "L", "D">>)

NbkitCosmo == PyStr(<<"P", "l", "a", "n", "c", "k">>)

NoDeclExc == [type |-> "", kind |-> "", names |-> <<>>]

DeclError(kind, names) == [type |-> "ValueError", kind |-> kind, names |-> names]

\* required = args[:-len(defaults)]
RequiredNames(args, defaults) ==
    IF Len(defaults) > 0 THEN SubSeq(args, 1, Len(args) - Len(defaults)) ELSE args

\* default_names = args[-len(defaults):]
DefaultNames(args, defaults) ==
    IF Len(defaults) > 0 THEN SubSeq(args, Len(args) - Len(defaults) + 1, Len(args))
    ELSE <<>>

\* an entry that keeps a declared required = True
UpdateEntryKeepRequired(a, required, default_names, defaults) ==
    [a EXCEPT !.required = @ \/ In(required, a.name),
              !.default = IF In(default_names, a.name)
                            THEN defaults[Index(default_names, a.name)] ELSE @]

\* d = a._asdict(); d['required'] = ...; d['default'] = ...; Argument(**d)
UpdateEntry(a, required, default_names, defaults) ==
    [a EXCEPT !.required = In(required, a.name),
              !.default = IF In(default_names, a.name)
                            THEN defaults[Index(default_names, a.name)] ELSE @]

\* the loop over the schema: every entry is rewritten, and extra and missing
\* are collected on the way
RECURSIVE UpdateLoop(_, _, _, _, _, _, _)
UpdateLoop(schema_, i, args, defaults, allowed, extra, missing) ==
    IF i > Len(schema_) THEN [schema |-> schema_, missing |-> missing, extra |-> extra]
    ELSE UpdateLoop(
            [schema_ EXCEPT ![i].val = UpdateEntry(@, RequiredNames(args, defaults),
                                                   DefaultNames(args, defaults), defaults)],
            i + 1, args, defaults, allowed,
            IF ~In(args, schema_[i].val.name) /\ ~In(allowed, schema_[i].val.name)
                THEN Append(extra, schema_[i].val.name) ELSE extra,
            IF (In(args, schema_[i].val.name) \/ In(allowed, schema_[i].val.name))
                    /\ In(missing, schema_[i].val.name)
                THEN ListRemove(missing, schema_[i].val.name) ELSE missing)

\* new_schema[name] = schema[name] for the names that are in the schema
RECURSIVE CopyEntries(_, _, _, _)
CopyEntries(new_schema, schema_, names, i) ==
    IF i > Len(names) THEN new_schema
    ELSE CopyEntries(IF Has(schema_, names[i])
                        THEN Put(new_schema, names[i], Get(schema_, names[i]))
                        ELSE new_schema,
                     schema_, names, i + 1)

\* reorder the schema to match the signature, when its order differs
Reorder(schema_, args, allowed) ==
    IF SelectSeq(Keys(schema_), LAMBDA k : In(args, k)) # args
        THEN CopyEntries(CopyEntries(<<>>, schema_, args, 1), schema_, allowed, 1)
        ELSE schema_

\* a check that lets extra schema entries pass
UpdateCheckedMissingOnly(r, args, allowed) ==
    IF Len(r.missing) > 0
        THEN [schema |-> r.schema, exc |-> DeclError("missing arguments in schema", r.missing)]
    ELSE [schema |-> Reorder(r.schema, args, allowed), exc |-> NoDeclExc]

\* crash if we are missing or got extra; otherwise reorder
UpdateChecked(r, args, allowed) ==
    IF Len(r.missing) > 0
        THEN [schema |-> r.schema, exc |-> DeclError("missing arguments in schema", r.missing)]
    ELSE IF Len(r.extra) > 0
        THEN [schema |-> r.schema, exc |-> DeclError("extra arguments in schema", r.extra)]
    ELSE [schema |-> Reorder(r.schema, args, allowed), exc |-> NoDeclExc]

\* the result is the schema as the call leaves it and the exception it raised;
\* the docstring that is appended at the end is left out
update_schema(schema_, attrs, defaults, allowed) ==
    UpdateChecked(UpdateLoop(schema_, 1, Tail(attrs), defaults, allowed, <<>>,
                             DefaultNames(Tail(attrs), defaults)
                                \o RequiredNames(Tail(attrs), defaults)),
                  Tail(attrs), allowed)

Allowed(attach_comm, attach_cosmo) ==
    (IF attach_cosmo THEN <<AmbientCosmo>> ELSE <<>>)
        \o (IF attach_comm THEN <<AmbientComm>> ELSE <<>>)

\* init.schema.add_argument(name, default=None, help=h) unless it is there
AddAmbient(schema_, attach, name, h) ==
    IF attach /\ ~Has(schema_, name)
        THEN add_argument(schema_, name, TSingle("None"), PyNone, NoChoices, NargsNone, h,
                          FALSE).schema
        ELSE schema_

\* the part of autoassign that runs when the constructor is decorated
autoassign(schema_, attrs, defaults, attach_comm, attach_cosmo) ==
    update_schema(AddAmbient(AddAmbient(schema_, attach_cosmo, AmbientCosmo,
                                        "the Cosmology class relevant for the DataSource"),
                             attach_comm, AmbientComm, "the global MPI communicator"),
                  attrs, defaults, Allowed(attach_comm, attach_cosmo))

NoRaise == [type |-> "", about |-> <<>>, base |-> "", original |-> ""]

Exception(type, base, original, about) ==
    [type |-> type, about |-> about, base |-> base, original |-> original]

\* the exception check_choices raises, if any
check_choices(schema_, attr, val) ==
    IF Has(schema_, attr) /\ Get(schema_, attr).choices.given
            /\ val \notin Get(schema_, attr).choices.of
        THEN Exception("ValueError", "Exception", "valid choices for", Get(schema_, attr).name)
        ELSE NoRaise

\* the locals of one wrapper invocation
Frame(args, kwargs) ==
    [exc |-> NoRaise, self |-> <<>>, args |-> args, kwargs |-> kwargs, posargs |-> <<>>]

AttachComm(w, attach_comm) ==
    IF attach_comm THEN [w EXCEPT !.self = Put(@, AmbientComm, NbkitComm)] ELSE w

AttachCosmo(w, attach_cosmo) ==
    IF attach_cosmo THEN [w EXCEPT !.self = Put(@, AmbientCosmo, NbkitCosmo)] ELSE w

\* for k in allowed: if k in kwargs: setattr(self, k, kwargs.pop(k))
RECURSIVE PopAllowed(_, _, _)
PopAllowed(w, allowed, i) ==
    IF i > Len(allowed) THEN w
    ELSE PopAllowed(IF Has(w.kwargs, allowed[i])
                        THEN [w EXCEPT !.self = Put(@, allowed[i], Get(w.kwargs, allowed[i])),
                                       !.kwargs = Remove(@, allowed[i])]
                        ELSE w,
                    allowed, i + 1)

\* for attr, val in zip(reversed(attrs), reversed(defaults)): setattr(self, attr, val)
RECURSIVE ApplyDefaults(_, _, _, _)
ApplyDefaults(w, attrs, defaults, j) ==
    IF j > Len(defaults) \/ j > Len(attrs) THEN w
    ELSE ApplyDefaults([w EXCEPT !.self = Put(@, attrs[Len(attrs) + 1 - j],
                                               defaults[Len(defaults) + 1 - j])],
                       attrs, defaults, j + 1)

\* a binding that sets the attribute without looking at the choices
BindUnchecked(w, schema_, attr, val, positional) ==
    IF positional
        THEN [w EXCEPT !.posargs = Put(@, attr, val), !.self = Put(@, attr, val)]
    ELSE [w EXCEPT !.self = Put(@, attr, val)]

\* one positional or keyword binding: check_choices, then setattr
Bind(w, schema_, attr, val, positional) ==
    IF check_choices(schema_, attr, val) # NoRaise
        THEN [w EXCEPT !.exc = check_choices(schema_, attr, val)]
    ELSE IF positional
        THEN [w EXCEPT !.posargs = Put(@, attr, val), !.self = Put(@, attr, val)]
    ELSE [w EXCEPT !.self = Put(@, attr, val)]

\* for attr, val in zip(positional_attrs, args)
RECURSIVE BindPositional(_, _, _, _)
BindPositional(w, schema_, positional_attrs, i) ==
    IF i > Len(positional_attrs) \/ i > Len(w.args) \/ w.exc # NoRaise THEN w
    ELSE BindPositional(Bind(w, schema_, positional_attrs[i], w.args[i], TRUE),
                        schema_, positional_attrs, i + 1)

\* for attr, val in kwargs.items()
RECURSIVE BindKeywords(_, _, _)
BindKeywords(w, schema_, i) ==
    IF i > Len(w.kwargs) \/ w.exc # NoRaise THEN w
    ELSE BindKeywords(Bind(w, schema_, w.kwargs[i].key, w.kwargs[i].val, FALSE),
                      schema_, i + 1)

\* the message get_init_errmsg builds: its lines, and the names each one lists
get_init_errmsg(schema_, posargs, kwargs) ==
    LET duplicated == {k \in {posargs[i].key : i \in 1..Len(posargs)} : Has(kwargs, k)}
        required == SelectSeq(Keys(schema_), LAMBDA s : Get(schema_, s).required)
        missing == SelectSeq(required, LAMBDA r : ~Has(posargs, r) /\ ~Has(kwargs, r))
        keys == {posargs[i].key : i \in 1..Len(posargs)}
                    \cup {kwargs[i].key : i \in 1..Len(kwargs)}
        extra == {k \in keys : ~Has(schema_, k)}
    IN  [missing |-> missing,
         extra |-> extra, duplicated |-> duplicated, lines |-> (IF duplicated # {} THEN <<"duplicated arguments">> ELSE <<>>)
                    \o (IF Len(missing) > 0 THEN <<"missing arguments">> ELSE <<>>)
                    \o (IF extra # {} THEN <<"extra arguments">> ELSE <<>>)]

NoErrmsg == [missing |-> <<>>, extra |-> {}, duplicated |-> {}, lines |-> <<>>]

\* whether Python can bind init(self, *args, **kwargs) to the signature
CanBind(attrs, defaults, args, kwargs) ==
    /\ Len(args) <= Len(attrs) - 1
    /\ \A i \in 1..Len(kwargs) :
            /\ In(Tail(attrs), kwargs[i].key)
            /\ Index(Tail(attrs), kwargs[i].key) > Len(args)
    /\ \A j \in 1..(Len(attrs) - 1 - Len(defaults)) :
            j <= Len(args) \/ Has(kwargs, attrs[j + 1])

\* what init(self, *args, **kwargs) raises: body is what its own code does
\* once the arguments are bound
Thrown(attrs, defaults, args, kwargs, body) ==
    IF ~CanBind(attrs, defaults, args, kwargs)
        THEN Exception("TypeError", "Exception", "init() arguments", <<>>)
    ELSE IF body = "Exception"
        THEN Exception("RuntimeError", "Exception", "raised by init", <<>>)
    ELSE IF body = "BaseException"
        THEN Exception("KeyboardInterrupt", "BaseException", "raised by init", <<>>)
    ELSE NoRaise

Outcome(self, called, thrown, exc, rewritten, errmsg) ==
    [exc |-> exc, self |-> self, called |-> called, thrown |-> thrown,
     rewritten |-> rewritten, errmsg |-> errmsg]

\* try: return init(self, *args, **kwargs); except Exception as e: ...; raise
CallInitWith(w, schema_, thrown) ==
    IF w.exc # NoRaise THEN Outcome(w.self, FALSE, NoRaise, w.exc, FALSE, NoErrmsg)
    ELSE IF thrown.base = "Exception"
        THEN Outcome(w.self, TRUE, thrown, thrown, TRUE,
                     get_init_errmsg(schema_, w.posargs, w.kwargs))
    ELSE Outcome(w.self, TRUE, thrown, thrown, FALSE, NoErrmsg)

CallInit(w, schema_, attrs, defaults, body) ==
    CallInitWith(w, schema_, Thrown(attrs, defaults, w.args, w.kwargs, body))

\* one invocation of the wrapper on a fresh instance
wrapper(schema_, attrs, defaults, attach_comm, attach_cosmo, args, kwargs, body) ==
    CallInit(
        BindKeywords(
            BindPositional(
                ApplyDefaults(
                    PopAllowed(AttachCosmo(AttachComm(Frame(args, kwargs), attach_comm),
                                           attach_cosmo),
                               Allowed(attach_comm, attach_cosmo), 1),
                    attrs, defaults, 1),
                schema_, Tail(attrs), 1),
            schema_, 1),
        schema_, attrs, defaults, body)

-----------------------------------------------------------------------------
(* Scenarios: the state a scenario leaves untouched *)

NoOut == [ok |-> FALSE, exc |-> [type |-> "", kind |-> "not called", about |-> <<>>]]

NoCall == [name |-> <<>>, called |-> FALSE]

IdleCast ==
    /\ castArg = Argument(<<>>, FALSE, TSingle("None"), PyNone, NoChoices, NargsNone,
                          HelpNone, <<>>)
    /\ castValue = PyNone
    /\ castOut = NoOut

NoFunc ==
    [attrs |-> <<SelfName>>, exc |-> NoDeclExc, defaults |-> <<>>, attach_comm |-> FALSE,
     attach_cosmo |-> FALSE, decorated |-> FALSE, updates |-> 0, before |-> <<>>]

NoInvocation ==
    [body |-> "", done |-> FALSE, args |-> <<>>, kwargs |-> <<>>,
     out |-> Outcome(<<>>, FALSE, NoRaise, NoRaise, FALSE, NoErrmsg)]

IdleBind ==
    /\ func = NoFunc
    /\ call = NoInvocation

IdleSchema ==
    /\ schema = <<>>
    /\ ndecl = 0
    /\ lastCall = NoCall
    /\ schemaExc = NoExc

-----------------------------------------------------------------------------
(* The declaration scenario: a schema grown by add_argument calls *)

NoRead == ReadResult(NoExc, <<>>, <<>>, <<>>, 0, <<>>, PyNone)

IdleRead ==
    /\ document = PyNone
    /\ readOut = NoRead

\* the keyword arguments of one add_argument call
Kwargs(type, default, choices, nargs, required) ==
    [type |-> type, required |-> required, default |-> default, choices |-> choices,
     nargs |-> nargs, help |-> HelpNone]

DeclNames ==
    {<<"a">>, <<"b">>, <<"a", ".", "b">>, <<"a", ".", "c">>,
     <<"a", ".", "b", ".", "c">>, <<"b", ".", "c">>}

DeclKwargs ==
    {Kwargs(TSingle("None"), PyNone, NoChoices, NargsNone, FALSE),
     Kwargs(TSingle("int"), PyInt(5), ChoicesOf({PyInt(1), PyInt(5)}), NargsInt(2), TRUE),
     Kwargs(TTuple(<<"int", "str">>), PyNone, NoChoices, NargsPlus, TRUE),
     Kwargs(TSingle("str"), PyStr(<<"x">>), ChoicesOf({PyStr(<<"x">>)}), NargsNone, FALSE)}

AddArgument(name, kw) ==
    /\ phase = "declare"
    /\ ndecl < MaxDecl
    /\ LET r == add_argument(schema, name, kw.type, kw.default, kw.choices, kw.nargs,
                             kw.help, kw.required)
       IN  /\ schema' = r.schema
           /\ schemaExc' = r.exc
    /\ ndecl' = ndecl + 1
    /\ lastCall' = [name |-> name, called |-> TRUE, kw |-> kw]
    /\ UNCHANGED phase

InitSchema ==
    /\ phase = "declare"
    /\ IdleSchema
    /\ IdleCast
    /\ IdleRead
    /\ IdleBind

NextSchema ==
    \E name \in DeclNames, kw \in DeclKwargs :
        AddArgument(name, kw) /\ UNCHANGED <<castVars, readVars, bindVars>>

SpecSchema == InitSchema /\ [][NextSchema]_vars

-----------------------------------------------------------------------------
(* The read scenario: a declared schema, then ReadConfigFile on a document *)

ReadNames ==
    {<<"a">>, <<"A">>, <<"b">>, <<"a", ".", "b">>, <<"a", ".", "b", ".", "c">>}

ReadKwargs ==
    {Kwargs(ty, PyNone, NoChoices, NargsNone, req) :
        ty \in {TSingle("None"), TSingle("int")}, req \in BOOLEAN}

DocScalars == {PyStr(<<"4", "2">>), PyStr(<<"x">>)}

\* the keys a document may hold at each depth
DocKeys(depth) ==
    CASE depth = 1 -> {<<"a">>, <<"A">>, <<"b">>, <<"u">>}
      [] depth = 2 -> {<<"b">>, <<"B">>, <<"u">>}
      [] OTHER -> {<<"c">>, <<"u">>}

\* the ordered mappings with distinct keys and at most n keys in all
RECURSIVE DocsOf(_, _)
DocsOf(depth, n) ==
    IF n = 0 THEN {<<>>}
    ELSE {<<>>} \cup
         UNION {UNION {{<<[val |-> v, key |-> k]>> \o rest :
                            v \in (IF m = 0 THEN DocScalars ELSE {})
                                    \cup {PyDict(d) : d \in DocsOf(depth + 1, m)},
                            rest \in {r \in DocsOf(depth, n - 1 - m) : ~Has(r, k)}} :
                       m \in 0..(n - 1)} :
                k \in DocKeys(depth)}

\* the mappings with one key at each depth, down to the third
RECURSIVE ChainsOf(_)
ChainsOf(depth) ==
    {<<[val |-> v, key |-> k]>> :
        k \in DocKeys(depth),
        v \in IF depth = 3 THEN DocScalars ELSE {PyDict(d) : d \in ChainsOf(depth + 1)}}

Docs ==
    {PyDict(d) : d \in DocsOf(1, MaxDocKeys) \cup ChainsOf(1)}
        \cup {PyDict(<<[val |-> PyStr(<<"p">>), key |-> ReservedX]>> \o d) :
                d \in DocsOf(1, 1)}
        \cup {PyNone, PyStr(<<"x">>)}

DeclareForRead(name, kw) ==
    /\ AddArgument(name, kw)
    /\ schemaExc' = NoExc
    /\ UNCHANGED <<castVars, readVars, bindVars>>

Read(doc) ==
    /\ phase = "declare"
    /\ phase' = "read done"
    /\ document' = doc
    /\ readOut' = ReadConfigFile(doc, schema)
    /\ UNCHANGED <<castVars, schemaVars, bindVars>>

NextRead ==
    \/ \E name \in ReadNames, kw \in ReadKwargs : DeclareForRead(name, kw)
    \/ \E doc \in Docs : Read(doc)

SpecRead == InitSchema /\ [][NextRead]_vars

-----------------------------------------------------------------------------
(* The cast scenario: one call of ConstructorSchema.cast on drawn inputs *)

CastFns == {"None", "int", "str"}

CastTypes ==
    {TSingle(f) : f \in CastFns} \cup {TTuple(<<f, g>>) : f \in CastFns, g \in CastFns}
        \cup {TTuple(<<"int", "int", "str">>)}

CastNargs == {NargsNone, NargsPlus, NargsStar} \cup {NargsInt(n) : n \in 0..MaxLen}

Scalars ==
    {PyStr(<<"4", "2">>), PyStr(<<"a", "b", "c">>), PyStr(<<"-", "7">>), PyStr(<<>>),
     PyInt(42), PyNone}

Elements == {PyStr(<<"4", "2">>), PyStr(<<"a", "b", "c">>), PyInt(7)}

CastValues == Scalars \cup {PyList(l) : l \in SeqsUpTo(Elements, MaxLen)}

CastArgs ==
    {Argument(<<"n">>, FALSE, ty, PyNone, NoChoices, na, HelpNone, <<>>) :
        ty \in CastTypes, na \in CastNargs}

InitCast ==
    /\ phase = "cast"
    /\ castArg \in CastArgs
    /\ castValue \in CastValues
    /\ castOut = NoOut
    /\ IdleSchema
    /\ IdleRead
    /\ IdleBind

Cast ==
    /\ phase = "cast"
    /\ castOut' = cast(castArg, castValue)
    /\ phase' = "cast done"
    /\ UNCHANGED <<castArg, castValue, schemaVars, readVars, bindVars>>

NextCast == Cast

SpecCast == InitCast /\ [][NextCast]_vars

-----------------------------------------------------------------------------
(* The bind scenario: a schema declared with attribute(), the constructor  *)
(* decorated with autoassign, then one invocation of the wrapper           *)

BindNames == {<<"a">>, <<"b">>, AmbientComm}

BindKwargs ==
    {Kwargs(TSingle("None"), PyNone, NoChoices, NargsNone, FALSE),
     Kwargs(TSingle("None"), PyNone, NoChoices, NargsNone, TRUE),
     Kwargs(TSingle("None"), PyInt(3), NoChoices, NargsNone, FALSE),
     Kwargs(TSingle("int"), PyInt(3), ChoicesOf({PyInt(1), PyInt(2)}), NargsNone, TRUE)}

\* the attribute() decorations: plain names, and one dotted name
BindDecls ==
    {[name |-> n, kw |-> kw] : n \in BindNames, kw \in BindKwargs}
        \cup {[name |-> <<"a", ".", "b">>,
               kw |-> Kwargs(TSingle("None"), PyNone, NoChoices, NargsNone, FALSE)]}

\* the signatures: self, then up to MaxParams distinct parameters
Signatures ==
    {<<SelfName>> \o s : s \in {t \in SeqsUpTo(BindNames, MaxParams) :
                                    \A i, j \in 1..Len(t) : t[i] = t[j] => i = j}}

SignatureDefaults(attrs) == SeqsUpTo({PyInt(5)}, Len(attrs) - 1)

CallArgs == SeqsUpTo({PyInt(1), PyInt(7)}, MaxArgs)

CallKwargs ==
    {kw \in SeqsUpTo([val : {PyInt(1), PyInt(9)}, key : BindNames], MaxKwargs) :
        \A i, j \in 1..Len(kw) : kw[i].key = kw[j].key => i = j}

Bodies == {"returns", "Exception", "BaseException"}

DeclareForBind(d) ==
    /\ AddArgument(d.name, d.kw)
    /\ schemaExc' = NoExc
    /\ UNCHANGED <<castVars, readVars, bindVars>>

\* @autoassign on a constructor that carries a schema
Decorate(attrs, defaults, attach_comm, attach_cosmo) ==
    /\ phase = "declare"
    /\ ndecl > 0
    /\ LET r == autoassign(schema, attrs, defaults, attach_comm, attach_cosmo)
       IN  /\ schema' = r.schema
           /\ func' = [attrs |-> attrs, exc |-> r.exc, defaults |-> defaults,
                       attach_comm |-> attach_comm, attach_cosmo |-> attach_cosmo,
                       decorated |-> TRUE, updates |-> 1, before |-> schema]
           /\ phase' = IF r.exc = NoDeclExc THEN "decorated" ELSE "declaration failed"
    /\ UNCHANGED <<castVars, readVars, ndecl, lastCall, schemaExc, call>>

\* update_schema once more, on the same function and signature
UpdateAgain ==
    /\ phase \in {"decorated", "updated again", "declaration failed"}
    /\ phase' = IF phase = "decorated" THEN "updated again" ELSE phase
    /\ func.updates < MaxUpdates
    /\ LET r == update_schema(schema, func.attrs, func.defaults,
                              Allowed(func.attach_comm, func.attach_cosmo))
       IN  /\ schema' = r.schema
           /\ func' = [func EXCEPT !.exc = r.exc, !.updates = @ + 1, !.before = schema]
    /\ UNCHANGED <<castVars, readVars, ndecl, lastCall, schemaExc, call>>

\* an instantiation: the wrapper runs on a new instance
Call(args, kwargs, body) ==
    /\ phase = "decorated"
    /\ phase' = "called"
    /\ call' = [body |-> body, done |-> TRUE, args |-> args, kwargs |-> kwargs,
                out |-> wrapper(schema, func.attrs, func.defaults, func.attach_comm,
                                func.attach_cosmo, args, kwargs, body)]
    /\ UNCHANGED <<castVars, readVars, schemaVars, func>>

NextBind ==
    \/ \E d \in BindDecls : DeclareForBind(d)
    \/ \E attrs \in Signatures, attach_comm \in BOOLEAN, attach_cosmo \in BOOLEAN :
        \E defaults \in SignatureDefaults(attrs) :
            Decorate(attrs, defaults, attach_comm, attach_cosmo)
    \/ UpdateAgain
    \/ \E args \in CallArgs, kwargs \in CallKwargs, body \in Bodies :
            Call(args, kwargs, body)

SpecBind == InitSchema /\ [][NextBind]_vars

-----------------------------------------------------------------------------
(* Claims about ConstructorSchema.cast *)

CastDone == phase = "cast done"

\* the sequence the cast functions see: the value, wrapped when nargs is set
Wrapped ==
    IF castArg.nargs.k # "None" /\ castValue.t # "list" THEN <<castValue>> ELSE castValue.l

CardinalityOk ==
    /\ castArg.nargs.k = "int" => Len(Wrapped) = castArg.nargs.n
    /\ castArg.nargs.k = "+" => Len(Wrapped) > 0

\* candidate f succeeds on the whole value (on every element when nargs is set)
Succeeds(f) ==
    \/ f = "None"
    \/ /\ f # "None"
       /\ IF castArg.nargs.k # "None"
            THEN \A j \in 1..Len(Wrapped) : ApplyCast(f, Wrapped[j]).ok
            ELSE ApplyCast(f, castValue).ok

\* what candidate f alone makes of the whole value, when it succeeds
WholeCast(f) ==
    IF castArg.nargs.k # "None"
        THEN PyList([j \in 1..Len(Wrapped) |->
                        IF f = "None" THEN Wrapped[j] ELSE ApplyCast(f, Wrapped[j]).val])
        ELSE IF f = "None" THEN castValue ELSE ApplyCast(f, castValue).val

\* the failure of candidate f: that of the first element it fails on
FailureOf(f) ==
    IF castArg.nargs.k # "None"
        THEN LET j == CHOOSE j \in 1..Len(Wrapped) :
                        /\ ~ApplyCast(f, Wrapped[j]).ok
                        /\ \A i \in 1..(j - 1) : ApplyCast(f, Wrapped[i]).ok
             IN  ApplyCast(f, Wrapped[j])
        ELSE ApplyCast(f, castValue)

\* C4: the candidates of arg.type are tried in declared order; the result is that
\* of the first candidate that succeeds on the whole value (all elements from the
\* same candidate); failures of non-final candidates are swallowed, and when every
\* non-final candidate fails the final one's result or failure comes out
\* unchanged.  (int, str) gives 42 for "42" and "abc" for "abc".
C4_FirstSuccessfulCandidate ==
    (CastDone /\ CardinalityOk) =>
        LET fs == castArg.type.fs
            n == Len(fs)
            winners == {i \in 1..n : Succeeds(fs[i])}
        IN  /\ winners # {} =>
                LET i == CHOOSE i \in winners : \A k \in winners : i <= k
                IN  castOut = Ok(WholeCast(fs[i]))
            /\ winners = {} => castOut = FailureOf(fs[n])
            /\ (castArg.type = TTuple(<<"int", "str">>) /\ castArg.nargs = NargsNone) =>
                /\ castValue = PyStr(<<"4", "2">>) => castOut = Ok(PyInt(42))
                /\ castValue = PyStr(<<"a", "b", "c">>) =>
                        castOut = Ok(PyStr(<<"a", "b", "c">>))

\* the first candidate failed on one element of a list and the second took over
C4_Witness ==
    /\ CastDone
    /\ castArg.type = TTuple(<<"int", "str">>)
    /\ castArg.nargs = NargsInt(2)
    /\ castValue = PyList(<<PyStr(<<"4", "2">>), PyStr(<<"a", "b", "c">>)>>)
    /\ castOut = Ok(PyList(<<PyStr(<<"4", "2">>), PyStr(<<"a", "b", "c">>)>>))

\* C5: cardinality is enforced before any cast function runs: with nargs set a
\* non-list is wrapped into a one-element list; an integer nargs = n rejects any
\* other length and '+' rejects the empty list, both with a ValueError naming the
\* argument, whatever the cast functions would do; otherwise the result has the
\* length and order of the input, each element cast on its own.
C5_CardinalityBeforeCast ==
    CastDone =>
        /\ (castArg.nargs.k = "int" /\ Len(Wrapped) # castArg.nargs.n) =>
                /\ ~castOut.ok
                /\ castOut.exc.type = "ValueError"
                /\ castOut.exc.kind = "requires exactly"
                /\ castOut.exc.about = castArg.name
        /\ (castArg.nargs.k = "+" /\ Len(Wrapped) = 0) =>
                /\ ~castOut.ok
                /\ castOut.exc.type = "ValueError"
                /\ castOut.exc.kind = "requires at least one argument"
                /\ castOut.exc.about = castArg.name
        /\ (castArg.nargs.k # "None" /\ CardinalityOk /\ castOut.ok) =>
                /\ castOut.val.t = "list"
                /\ Len(castOut.val.l) = Len(Wrapped)
                /\ \E f \in {castArg.type.fs[i] : i \in 1..Len(castArg.type.fs)} :
                     /\ Succeeds(f)
                     /\ \A j \in 1..Len(Wrapped) :
                            castOut.val.l[j] =
                                IF f = "None" THEN Wrapped[j]
                                ELSE ApplyCast(f, Wrapped[j]).val
        /\ (castArg.nargs.k # "None" /\ castValue.t # "list" /\ CardinalityOk
                /\ castArg.type = TSingle("None")) =>
                castOut = Ok(PyList(<<castValue>>))

\* nargs = 3 with two elements, one of which int would also reject
C5_Witness ==
    /\ CastDone
    /\ castArg.nargs = NargsInt(3)
    /\ castArg.type = TSingle("int")
    /\ castValue = PyList(<<PyStr(<<"a", "b", "c">>), PyInt(7)>>)
    /\ ~castOut.ok
    /\ castOut.exc.kind = "requires exactly"

-----------------------------------------------------------------------------
(* Claims about ConstructorSchema.add_argument and contains *)

\* schema[s1][s2]...[sn]: the walk down the subfields chain, one segment at a time
RECURSIVE Reachable(_, _)
Reachable(obj, segs) ==
    /\ Has(obj, Head(segs))
    /\ Len(segs) > 1 => Reachable(Get(obj, Head(segs)).subfields, Tail(segs))

RECURSIVE Lookup(_, _)
Lookup(obj, segs) ==
    IF Len(segs) = 1 THEN Get(obj, Head(segs))
    ELSE Lookup(Get(obj, Head(segs)).subfields, Tail(segs))

\* C6: for a dotted name of any number of segments, add_argument(name, ...)
\* succeeds, and right afterwards contains(name) is true and the walk down the
\* subfields chain returns an Argument with the name, required, type, default,
\* choices and nargs that were passed.
C6_RoundTrip ==
    lastCall.called =>
        /\ schemaExc = NoExc
        /\ contains(schema, lastCall.name) = Ok(TRUE)
        /\ Reachable(schema, Split(lastCall.name))
        /\ LET arg == Lookup(schema, Split(lastCall.name))
           IN  /\ arg.name = lastCall.name
               /\ arg.required = lastCall.kw.required
               /\ arg.type = lastCall.kw.type
               /\ arg.default = lastCall.kw.default
               /\ arg.choices = lastCall.kw.choices
               /\ arg.nargs = lastCall.kw.nargs

-----------------------------------------------------------------------------
(* Claims about ReadConfigFile and fill_namespace *)

ReadDone == phase = "read done" /\ document.t = "dict"

Returned == ReadDone /\ readOut.raised.type = ""

\* an exception that came out of fill_namespace, as opposed to the final
\* "missing required arguments" error
FillRaised ==
    readOut.raised.type \in {"ConfigurationError", "AttributeError", "TypeError"}

\* the document that is left once the reserved keys are taken out
Document ==
    LET noX == IF Has(document.l, ReservedX) THEN Remove(document.l, ReservedX)
               ELSE document.l
    IN  IF Has(noX, ReservedCosmo) THEN Remove(noX, ReservedCosmo) ELSE noX

\* the leaves of a schema, each with the keys of the containers above it
RECURSIVE LeavesOf(_, _)
LeavesOf(od, path) ==
    UNION {IF od[i].val.subfields = <<>>
                THEN {[key |-> od[i].key, arg |-> od[i].val, path |-> path]}
                ELSE LeavesOf(od[i].val.subfields, Append(path, od[i].key)) :
           i \in 1..Len(od)}

\* the sub-document a path of container keys leads to; None when there is none
RECURSIVE SubDocument(_, _)
SubDocument(doc, path) ==
    IF path = <<>> THEN doc
    ELSE IF doc.t = "dict" /\ Has(doc.l, Head(path))
        THEN SubDocument(Get(doc.l, Head(path)), Tail(path))
    ELSE PyNone

MatchingKeys(doc, name) == {i \in 1..Len(doc.l) : Lower(doc.l[i].key) = Lower(name)}

\* the required leaves whose sub-document is there and holds no matching key
UnmatchedRequired ==
    {leaf.arg.name : leaf \in
        {l \in LeavesOf(schema, <<>>) :
            /\ l.arg.required
            /\ SubDocument(PyDict(Document), l.path).t = "dict"
            /\ MatchingKeys(SubDocument(PyDict(Document), l.path), l.key) = {}}}

\* no two names of one level of the schema differ in letter case only
RECURSIVE NoCaseClash(_)
NoCaseClash(od) ==
    /\ \A i, j \in 1..Len(od) : Lower(od[i].key) = Lower(od[j].key) => i = j
    /\ \A i \in 1..Len(od) : NoCaseClash(od[i].val.subfields)

\* C1 as claimed: for any schema and document every top-level entry is walked
\* before failing, and when required leaves have no matching key in their
\* present (sub-)document a single error lists every one of them.
C1_WalksAllBeforeFailing ==
    ReadDone =>
        /\ readOut.walked = Len(schema)
        /\ UnmatchedRequired # {} =>
                /\ readOut.raised.type = "ValueError"
                /\ readOut.raised.kind = "missing required arguments"
                /\ UnmatchedRequired \subseteq Range(readOut.raised.names)

\* C1, amended: the walk over the top-level entries stops at the first entry
\* whose fill_namespace raises (a value that fails its cast, a sub-document that
\* is no mapping) and that exception propagates; when no fill raises, every
\* top-level entry was walked and, if any required leaf has no
\* case-insensitively matching key in its present (sub-)document, a single
\* ValueError lists the dotted name of every such leaf, each once (for schemas
\* without names that differ in case only on one level).
C1_AggregatedMissing ==
    ReadDone =>
        /\ FillRaised => readOut.walked < Len(schema)
        /\ ~FillRaised =>
            /\ readOut.walked = Len(schema)
            /\ Len(readOut.missing) = Cardinality(Range(readOut.missing))
            /\ readOut.missing # <<>> => readOut.raised = MissingError(readOut.missing)
            /\ readOut.missing = <<>> => readOut.raised = NoExc
            /\ NoCaseClash(schema) => Range(readOut.missing) = UnmatchedRequired

\* two required leaves, one of them nested, both reported by the one error
C1_Witness ==
    /\ ReadDone
    /\ NoCaseClash(schema)
    /\ readOut.raised.type = "ValueError"
    /\ Len(readOut.raised.names) = 2
    /\ \E i \in 1..2 : Len(Split(readOut.raised.names[i])) = 2
    /\ Range(readOut.raised.names) = UnmatchedRequired

\* C2 as claimed: a document key that differs from an Argument's local name in
\* letter case only matches it, leaf or container: the key is taken out of the
\* document (it is not reported as unknown) and the result is set under the
\* schema's casing.  Stated for the top-level entries.
C2_CaseInsensitiveMatch ==
    (Returned /\ NoCaseClash(schema)) =>
        \A i \in 1..Len(schema) :
            LET hits == MatchingKeys(PyDict(Document), schema[i].key)
            IN  Cardinality(hits) = 1 =>
                    LET j == CHOOSE j \in hits : TRUE
                    IN  /\ ~Has(readOut.unknown, Document[j].key)
                        /\ schema[i].val.subfields = <<>> =>
                                /\ Has(readOut.ns, schema[i].key)
                                /\ Ok(Get(readOut.ns, schema[i].key))
                                        = cast(schema[i].val, Document[j].val)

\* the part of C2 that the code keeps: the leaves
C2_LeavesOnly ==
    (Returned /\ NoCaseClash(schema)) =>
        \A i \in 1..Len(schema) :
            LET hits == MatchingKeys(PyDict(Document), schema[i].key)
            IN  (Cardinality(hits) = 1 /\ schema[i].val.subfields = <<>>) =>
                    LET j == CHOOSE j \in hits : TRUE
                    IN  /\ ~Has(readOut.unknown, Document[j].key)
                        /\ Has(readOut.ns, schema[i].key)
                        /\ Ok(Get(readOut.ns, schema[i].key))
                                = cast(schema[i].val, Document[j].val)

\* the keys of a mapping that no Argument of one schema level matches
Undeclared(doc, od) ==
    {i \in 1..Len(doc) : \A a \in 1..Len(od) : Lower(od[a].key) # Lower(doc[i].key)}

\* C3 as claimed: a document key that the schema does not declare, at the top
\* level or inside the sub-document of a declared container, does not make
\* ReadConfigFile fail and comes back in `unknown` under its own name with its
\* own value.
C3_UnknownPassthrough ==
    Returned =>
        /\ \A i \in Undeclared(Document, schema) :
                /\ Has(readOut.unknown, Document[i].key)
                /\ Get(readOut.unknown, Document[i].key) = Document[i].val
        /\ \A a \in 1..Len(schema) :
                (/\ schema[a].val.subfields # <<>>
                 /\ Has(Document, schema[a].key)
                 /\ Get(Document, schema[a].key).t = "dict") =>
                    LET sub == Get(Document, schema[a].key).l
                    IN  \A i \in Undeclared(sub, schema[a].val.subfields) :
                            \/ /\ Has(readOut.unknown, sub[i].key)
                               /\ Get(readOut.unknown, sub[i].key) = sub[i].val
                            \/ /\ Has(readOut.unknown, schema[a].key)
                               /\ Get(readOut.unknown, schema[a].key).t \in {"dict", "ns"}
                               /\ Has(Get(readOut.unknown, schema[a].key).l, sub[i].key)
                               /\ Get(Get(readOut.unknown, schema[a].key).l, sub[i].key)
                                    = sub[i].val

\* the part of C3 that the code keeps: the top-level keys
C3_TopLevelOnly ==
    Returned =>
        \A i \in Undeclared(Document, schema) :
            /\ Has(readOut.unknown, Document[i].key)
            /\ Get(readOut.unknown, Document[i].key) = Document[i].val

\* every Argument of a schema, at any depth
RECURSIVE ArgumentsOf(_)
ArgumentsOf(od) ==
    UNION {{od[i].val} \cup ArgumentsOf(od[i].val.subfields) : i \in 1..Len(od)}

CastFailed == ReadDone /\ readOut.raised.kind = "unable to cast"

MissingRaised == ReadDone /\ readOut.raised.kind = "missing required arguments"

\* a cast failure comes out as a ConfigurationError that names the full dotted
\* path of an Argument of the schema and carries the underlying cause
CastFailureIsConfigurationError ==
    CastFailed =>
        /\ readOut.raised.type \in ConfigurationErrors
        /\ \E arg \in ArgumentsOf(schema) : arg.name = readOut.raised.about
        /\ readOut.raised.cause.type \in {"ValueError", "TypeError"}

\* C11 as claimed: both read-time user-input failures of ReadConfigFile are of
\* the ConfigurationError kind (the class or a subclass), not of the ValueError
\* kind: a present value that fails its cast, with the Argument's full dotted
\* path and the underlying cause, and required arguments missing from the
\* document.
C11_ConfigurationErrorKind ==
    /\ CastFailureIsConfigurationError
    /\ MissingRaised =>
            /\ readOut.raised.type \in ConfigurationErrors
            /\ readOut.raised.type # "ValueError"

\* the part of C11 that the code keeps: the cast failures
C11_CastFailuresOnly == CastFailureIsConfigurationError

\* a nested value failed its cast: the error names the dotted path
C11_CastWitness ==
    /\ CastFailed
    /\ Len(Split(readOut.raised.about)) = 2
    /\ readOut.raised.cause.type = "ValueError"

\* the top-level containers whose sub-document is not in the document
AbsentContainers ==
    {i \in 1..Len(schema) :
        /\ schema[i].val.subfields # <<>>
        /\ MatchingKeys(PyDict(Document), schema[i].key) = {}}

NothingAttached == \A i \in AbsentContainers : ~Has(readOut.ns, schema[i].key)

\* C12 as claimed: when the sub-document of a container is absent,
\* fill_namespace takes it as an empty document: it recurses into every declared
\* subfield, nested containers included, without raising, every required leaf
\* below the container is appended to the missing list under its full dotted
\* name, and no attribute is attached for the container.
C12_AbsentContainerAsEmpty ==
    ReadDone =>
        /\ AbsentContainers = 1..Len(schema) => ~FillRaised
        /\ NothingAttached
        /\ ~FillRaised =>
                \A i \in AbsentContainers :
                    \A leaf \in LeavesOf(schema[i].val.subfields, <<schema[i].key>>) :
                        leaf.arg.required => leaf.arg.name \in Range(readOut.missing)

\* the part of C12 that the code keeps: nothing is attached for the container
C12_NothingAttached == ReadDone => NothingAttached

-----------------------------------------------------------------------------
(* Claims about update_schema and the autoassign wrapper *)

Reconciled == func.updates > 0

\* the signature without the receiver
SigArgs == Tail(func.attrs)

SigDefaulted ==
    {SigArgs[j] : j \in (Len(SigArgs) - Len(func.defaults) + 1)..Len(SigArgs)}

SigRequired == Range(SigArgs) \ SigDefaulted

SigDefault(name) ==
    func.defaults[(CHOOSE j \in 1..Len(SigArgs) : SigArgs[j] = name)
                    - (Len(SigArgs) - Len(func.defaults))]

\* C7: once update_schema has run, every top-level schema entry, whatever was
\* declared for it, has required = (its name is a signature parameter without a
\* default) and, when its name is a defaulted parameter, default = that
\* parameter's signature default; a second run against the same signature leaves
\* every entry's required and default as the first run left them.
C7_RequiredAndDefaultFromSignature ==
    Reconciled =>
        /\ \A i \in 1..Len(schema) :
            /\ schema[i].val.required = (schema[i].key \in SigRequired)
            /\ schema[i].key \in SigDefaulted =>
                    schema[i].val.default = SigDefault(schema[i].key)
        /\ func.updates > 1 =>
            /\ Range(Keys(schema)) = Range(Keys(func.before))
            /\ \A i \in 1..Len(schema) :
                /\ schema[i].val.required = Get(func.before, schema[i].key).required
                /\ schema[i].val.default = Get(func.before, schema[i].key).default

\* 'a' was declared required with default 3; the signature gives it the default 5
C7_Witness ==
    /\ func.updates = 2
    /\ lastCall.called
    /\ lastCall.name = <<"a">>
    /\ lastCall.kw.required
    /\ lastCall.kw.default = PyInt(3)
    /\ <<"a">> \in SigDefaulted
    /\ SigDefault(<<"a">>) = PyInt(5)
    /\ Has(schema, <<"a">>)
    /\ ~Get(schema, <<"a">>).required
    /\ Get(schema, <<"a">>).default = PyInt(5)

AmbientAllowed ==
    (IF func.attach_comm THEN {AmbientComm} ELSE {})
        \cup (IF func.attach_cosmo THEN {AmbientCosmo} ELSE {})

ExtraEntries ==
    {k \in Range(Keys(schema)) : k \notin Range(SigArgs) /\ k \notin AmbientAllowed}

MissingEntries == {p \in Range(SigArgs) : ~Has(schema, p)}

DeclarationErrorIffExtraOrMissing ==
    Reconciled =>
        /\ func.exc.type \in {"", "ValueError"}
        /\ func.exc.type = "ValueError" <=> (ExtraEntries # {} \/ MissingEntries # {})

\* an instantiation runs no update_schema: schema and declaration outcome stay
InstantiationLeavesSchema == call' # call => UNCHANGED <<schema, func>>

\* C8: update_schema, run when autoassign decorates the constructor and never
\* by an instantiation, raises a declaration error exactly when some top-level
\* schema entry is neither a non-receiver signature parameter nor an allowed
\* ambient name (extra) or some non-receiver signature parameter, required or
\* defaulted, has no schema entry (missing); otherwise it completes.
C8_DeclarationErrorExactly ==
    [](DeclarationErrorIffExtraOrMissing) /\ [][InstantiationLeavesSchema]_vars

\* the schema covers the signature and has one entry too many
C8_Witness ==
    /\ Reconciled
    /\ SigArgs # <<>>
    /\ MissingEntries = {}
    /\ ExtraEntries # {}
    /\ func.exc = DeclError("extra arguments in schema", <<CHOOSE k \in ExtraEntries : TRUE>>)

ReturnedNormally == call.done /\ call.out.called /\ call.out.thrown = NoRaise

InitRaised == call.done /\ call.out.called /\ call.out.thrown # NoRaise

\* the names the caller supplied positionally, and those supplied by keyword
Positional == {SigArgs[j] : j \in 1..(IF Len(call.args) < Len(SigArgs)
                                        THEN Len(call.args) ELSE Len(SigArgs))}

Keyword == {call.kwargs[i].key : i \in 1..Len(call.kwargs)}

AttributesAsSupplied(names) ==
    /\ \A j \in 1..Len(call.args) :
            (j <= Len(SigArgs) /\ SigArgs[j] \in names) =>
                /\ Has(call.out.self, SigArgs[j])
                /\ Get(call.out.self, SigArgs[j]) = call.args[j]
    /\ \A i \in 1..Len(call.kwargs) :
            call.kwargs[i].key \in names =>
                /\ Has(call.out.self, call.kwargs[i].key)
                /\ Get(call.out.self, call.kwargs[i].key) = call.kwargs[i].val
    /\ \A p \in (SigDefaulted \cap names) \ (Positional \cup Keyword) :
            /\ Has(call.out.self, p)
            /\ Get(call.out.self, p) = SigDefault(p)

\* C9 as claimed: after a wrapper invocation whose real constructor returns
\* normally, every signature parameter supplied positionally or by keyword is an
\* instance attribute equal to the supplied value, and every defaulted parameter
\* that was not supplied is an attribute equal to its signature default: a
\* default never overwrites a supplied value.
C9_SuppliedNeverOverwritten ==
    ReturnedNormally => AttributesAsSupplied(Range(SigArgs))

\* the part of C9 that the code keeps: the parameters that are not also
\* allowed ambient names
C9_ExceptAmbient ==
    ReturnedNormally => AttributesAsSupplied(Range(SigArgs) \ AmbientAllowed)

Diagnostic(positional, keyword) ==
    /\ call.out.errmsg.duplicated = positional \cap keyword
    /\ Range(call.out.errmsg.missing) =
            {k \in Range(Keys(schema)) :
                Get(schema, k).required /\ k \notin positional \cup keyword}
    /\ call.out.errmsg.extra = {k \in positional \cup keyword : ~Has(schema, k)}
    /\ In(call.out.errmsg.lines, "duplicated arguments")
            <=> call.out.errmsg.duplicated # {}
    /\ In(call.out.errmsg.lines, "missing arguments")
            <=> call.out.errmsg.missing # <<>>
    /\ In(call.out.errmsg.lines, "extra arguments")
            <=> call.out.errmsg.extra # {}

\* C10 as claimed: when the real constructor raises during a wrapper
\* invocation, that same exception comes out, its message rewritten to hold the
\* original message and a diagnostic that lists, each only when non-empty, the
\* names supplied both positionally and by keyword, the required schema names
\* supplied neither way, and the supplied names that the schema does not have.
C10_SameExceptionWithDiagnostic ==
    InitRaised =>
        /\ call.out.exc = call.out.thrown
        /\ call.out.rewritten
        /\ Diagnostic(Positional, Keyword)

\* the part of C10 that the code keeps: the exception that comes out is always
\* the one the constructor raised; for an Exception the message is rewritten,
\* and the diagnostic is right up to the keywords that are allowed ambient names
C10_ExceptAmbient ==
    InitRaised =>
        /\ call.out.exc = call.out.thrown
        /\ call.out.rewritten <=> call.out.thrown.base = "Exception"
        /\ call.out.rewritten => Diagnostic(Positional, Keyword \ AmbientAllowed)

\* update_schema has run and raised nothing
Completed == Reconciled /\ func.exc = NoDeclExc

\* C13 as claimed: after update_schema completes without error, iterating the
\* schema yields the non-receiver signature parameters in signature order,
\* followed by the allowed ambient names that are in the schema, whatever the
\* order of the declarations.
C13_SignatureOrderThenAmbient ==
    Completed =>
        /\ Len(schema) >= Len(SigArgs)
        /\ SubSeq(Keys(schema), 1, Len(SigArgs)) = SigArgs
        /\ \A i \in (Len(SigArgs) + 1)..Len(schema) : schema[i].key \in AmbientAllowed

\* the part of C13 that the code keeps: the signature parameters come in
\* signature order among themselves
C13_SignatureOrder ==
    Completed => SelectSeq(Keys(schema), LAMBDA k : k \in Range(SigArgs)) = SigArgs

\* whether a value is outside the non-None choices of the schema entry of a name
Offending(name, val) ==
    /\ Has(schema, name)
    /\ Get(schema, name).choices.given
    /\ val \notin Get(schema, name).choices.of

\* the positionally bound arguments whose value is outside the choices
OffendingPositional ==
    {j \in 1..Len(call.args) : j <= Len(SigArgs) /\ Offending(SigArgs[j], call.args[j])}

\* the keywords, ambient names apart, whose value is outside the choices
OffendingKeyword ==
    {i \in 1..Len(call.kwargs) :
        /\ call.kwargs[i].key \notin AmbientAllowed
        /\ Offending(call.kwargs[i].key, call.kwargs[i].val)}

NotAssigned(name, val) ==
    Has(call.out.self, name) => Get(call.out.self, name) # val

\* C14: in a wrapper invocation where a positionally bound value, or a keyword
\* value other than an ambient name, is outside the non-None choices of its
\* schema Argument, the wrapper raises a ValueError at the point of binding:
\* the offending value is not assigned to the instance and the real constructor
\* is never called.
C14_ChoicesCheckedAtBinding ==
    (call.done /\ (OffendingPositional # {} \/ OffendingKeyword # {})) =>
        /\ call.out.exc.type = "ValueError"
        /\ call.out.exc.original = "valid choices for"
        /\ ~call.out.called
        /\ call.out.thrown = NoRaise
        /\ \A j \in OffendingPositional : NotAssigned(SigArgs[j], call.args[j])
        /\ \A i \in OffendingKeyword :
                NotAssigned(call.kwargs[i].key, call.kwargs[i].val)

\* a positional argument was bound and assigned, then a keyword value fell
\* outside its choices
C14_Witness ==
    /\ call.done
    /\ OffendingPositional = {}
    /\ OffendingKeyword # {}
    /\ Len(call.args) = 1
    /\ Has(call.out.self, SigArgs[1])
    /\ Get(call.out.self, SigArgs[1]) = call.args[1]
    /\ call.out.exc.type = "ValueError"
    /\ ~call.out.called

====
